---- MODULE Spec2Model ----
(***************************************************************************)
(* Model of utils/stl-repair-pymeshlab.py: the command-line program that    *)
(* loads a mesh file, applies eight PyMeshLab filters in sequence, saves    *)
(* the repaired mesh and prints a JSON result.                             *)
(*                                                                         *)
(* The file system and the PyMeshLab engine are the environment.  Every    *)
(* call the script makes to them is appended to `calls` together with the  *)
(* environment's answer.  A second invocation of the program on the same   *)
(* starting file system, with the verbose flag toggled and with the        *)
(* environment answering the same calls in the same way, is modelled by    *)
(* the action Rerun; it is what lets statements that compare two runs be    *)
(* checked.                                                                *)
(***************************************************************************)
EXTENDS Integers, Sequences, FiniteSets, TLC

VARIABLES
    argv,           \* sys.argv[1:] of the current invocation
    fs,             \* the file system: path -> file
    fs0,            \* the file system when the invocation started
    pc,             \* position of the script
    input_path,     \* args.input / repair_stl's input_path
    output_path,    \* args.output / repair_stl's output_path
    verbose,        \* args.verbose / repair_stl's verbose
    original_size,  \* local of repair_stl
    ms,             \* the pymeshlab.MeshSet and its current mesh
    initial_stats,  \* local of repair_stl
    final_stats,    \* local of repair_stl
    repair_steps,   \* local of repair_stl
    result,         \* value returned by repair_stl
    stdout,         \* documents written to sys.stdout
    stderr,         \* lines written to sys.stderr
    exitCode,       \* process exit status, Running while the process runs
    calls,          \* history: environment calls of this invocation, with answers
    run,            \* 1 for the first invocation, 2 for the repeated one
    ref             \* what the first invocation did, kept for the repeated one

vars == <<argv, fs, fs0, pc, input_path, output_path, verbose, original_size,
          ms, initial_stats, final_stats, repair_steps, result, stdout,
          stderr, exitCode, calls, run, ref>>

----------------------------------------------------------------------------
(* Bounds of the model *)

\* largest byte length of a file
MaxSize == 2
\* largest vertex count and face count of a mesh
MaxCount == 1

Sizes == 1..MaxSize
Counts == 0..MaxCount

----------------------------------------------------------------------------
(* Values *)

Paths == {"a.stl", "b.stl"}

Absent == [present |-> FALSE, size |-> 0, v |-> 0, f |-> 0]

\* a file left behind by a save that failed part-way
Truncated == [present |-> TRUE, size |-> 0, v |-> 0, f |-> 0]

MeshFile(s, v, f) == [present |-> TRUE, size |-> s, v |-> v, f |-> f]

Running == -1
Unset == -1
NoStats == [vertices |-> Unset, faces |-> Unset]
NoResult == [pending |-> TRUE]
NoMeshSet == [state |-> "none", v |-> 0, f |-> 0]
EmptyMeshSet == [state |-> "empty", v |-> 0, f |-> 0]

\* one entry of `calls`: the operation, its path argument (if any), whether it
\* returned, the value it returned and the class of the exception it raised
Call(op, arg, ok, ret, exc) ==
    [op |-> op, arg |-> arg, ok |-> ok, ret |-> ret, exc |-> exc]

----------------------------------------------------------------------------
(* Command lines *)

HelpFlags == {"-h", "--help"}
VerboseFlags == {"-v", "--verbose"}
UnknownFlags == {"--fast"}
OptionTokens == HelpFlags \cup VerboseFlags \cup UnknownFlags

ArgVectors ==
    { <<>>,
      <<"a.stl">>,
      <<"a.stl", "b.stl">>,
      <<"a.stl", "a.stl", "--verbose">>,
      <<"a.stl", "b.stl", "c.stl">>,
      <<"a.stl", "b.stl", "--fast">>,
      <<"-h">> }

IsPositional(t) == t \notin OptionTokens
NotVerboseFlag(t) == t \notin VerboseFlags

HasToken(av, S) == \E i \in 1..Len(av) : av[i] \in S

\* argparse on the parser built at lines 163-166: -h/--help prints the help
\* and exits 0; a missing positional, a surplus positional or an unknown
\* option prints the usage to stderr and exits 2.
ParseArgs(av) ==
    LET pos == SelectSeq(av, IsPositional)
    IN  IF HasToken(av, HelpFlags)
            THEN [status |-> "help", input |-> "", output |-> "", verbose |-> FALSE]
        ELSE IF Len(pos) # 2 \/ HasToken(av, UnknownFlags)
            THEN [status |-> "error", input |-> "", output |-> "", verbose |-> FALSE]
        ELSE [status |-> "ok", input |-> pos[1], output |-> pos[2],
              verbose |-> HasToken(av, VerboseFlags)]

\* the same command line with the verbose flag switched
ToggleVerbose(av) ==
    IF HasToken(av, VerboseFlags) THEN SelectSeq(av, NotVerboseFlag)
    ELSE Append(av, "-v")

----------------------------------------------------------------------------
(* Output *)

\* json.dumps(obj, indent=...): a JSON document of the object
JsonDumps(obj, indent) == [json |-> obj, indent |-> indent]
NoIndent == 0
Indent == 2
HelpText == [text |-> "help"]
UsageError == "usage"

IsJson(doc) == "json" \in DOMAIN doc

ImportFailure ==
    [success |-> FALSE,
     error |-> <<"PyMeshLab not installed. Install with: pip3 install pymeshlab">>]

----------------------------------------------------------------------------
(* The environment *)

\* the pymeshlab filters called by repair_stl, in the order of the source
Filters ==
    << "meshing_remove_duplicate_faces",
       "meshing_remove_duplicate_vertices",
       "meshing_remove_unreferenced_vertices",
       "meshing_repair_non_manifold_edges",
       "meshing_repair_non_manifold_vertices",
       "meshing_close_holes",
       "meshing_re_orient_faces_coherently",
       "meshing_snap_mismatched_borders" >>

FilterOps == {Filters[i] : i \in 1..Len(Filters)}
EngineOps ==
    FilterOps \cup {"MeshSet", "load_new_mesh", "vertex_number", "face_number",
                    "save_current_mesh"}

\* the exception classes an operation raises when it fails
Raises(op) ==
    IF op = "import" THEN {"ImportError"}
    ELSE IF op = "getsize" THEN {"FileNotFoundError"}
    ELSE IF op = "MeshSet" THEN {"MemoryError"}
    ELSE IF op \in {"vertex_number", "face_number"} THEN {"PyMeshLabException"}
    ELSE {"PyMeshLabException", "MemoryError"}

\* as if the clause were `except OSError`
OnlyOSErrors ==
    {"FileNotFoundError"}

\* classes that derive from Exception, which is what line 154 catches
ExceptionClasses ==
    {"ImportError", "FileNotFoundError", "MemoryError", "PyMeshLabException"}

\* str(e) of the exception raised by a call
Str(c) == <<c.exc, " raised by ", c.op>>

Failures(op, arg) == {Call(op, arg, FALSE, 0, e) : e \in Raises(op)}

\* In the repeated invocation the environment gives the i-th call the answer
\* it gave the i-th call of the first invocation, when it is the same call.
Admissible(c, i) ==
    (run = 2 /\ i <= Len(ref.calls) /\ ref.calls[i].op = c.op
        /\ ref.calls[i].arg = c.arg)
    => c = ref.calls[i]

\* the answers to vertex_number() followed by face_number(): the second is
\* only called when the first returned
StatsReads ==
    LET n == Len(calls)
        vs == {Call("vertex_number", "", TRUE, ms.v, "")}
                 \cup Failures("vertex_number", "")
        fcs == {Call("face_number", "", TRUE, ms.f, "")}
                 \cup Failures("face_number", "")
    IN  {<<c1>> : c1 \in {c \in vs : ~c.ok /\ Admissible(c, n + 1)}}
        \cup {<<c1, c2>> : c1 \in {c \in vs : c.ok /\ Admissible(c, n + 1)},
                           c2 \in {c \in fcs : Admissible(c, n + 2)}}

----------------------------------------------------------------------------
(* Init *)

\* a.stl is missing or holds a mesh with the smallest or the largest size and
\* counts; b.stl is missing or holds an older file
InitialFileSystems ==
    {[p \in Paths |-> IF p = "a.stl" THEN a ELSE b] :
        a \in {Absent} \cup {MeshFile(s, v, f) : s \in {1, MaxSize},
                                                v \in {0, MaxCount},
                                                f \in {0, MaxCount}},
        b \in {Absent, MeshFile(1, 0, 0)}}

NoRef ==
    [calls |-> <<>>, result |-> NoResult, stdout |-> <<>>, stderr |-> <<>>,
     exitCode |-> Running]

Init ==
    /\ argv \in ArgVectors
    /\ fs \in InitialFileSystems
    /\ fs0 = fs
    /\ pc = "import"
    /\ input_path = ""
    /\ output_path = ""
    /\ verbose = FALSE
    /\ original_size = Unset
    /\ ms = NoMeshSet
    /\ initial_stats = NoStats
    /\ final_stats = NoStats
    /\ repair_steps = <<>>
    /\ result = NoResult
    /\ stdout = <<>>
    /\ stderr = <<>>
    /\ exitCode = Running
    /\ calls = <<>>
    /\ run = 1
    /\ ref = NoRef

----------------------------------------------------------------------------
(* Module level: the import guard, lines 21-28 *)

world == <<argv, fs0, run, ref>>
args == <<input_path, output_path, verbose>>
locals == <<original_size, ms, initial_stats, final_stats, repair_steps>>
streams == <<stdout, stderr>>

ImportPymeshlab ==
    /\ pc = "import"
    /\ \E c \in {Call("import", "", TRUE, 0, "")} \cup Failures("import", "") :
        /\ Admissible(c, Len(calls) + 1)
        /\ calls' = Append(calls, c)
        /\ IF c.ok
              THEN /\ pc' = "parse"
                   /\ UNCHANGED <<stdout, exitCode>>
              ELSE /\ stdout' = Append(stdout, JsonDumps(ImportFailure, NoIndent))
                   /\ exitCode' = 1
                   /\ pc' = "exited"
    /\ UNCHANGED <<world, fs, args, locals, result, stderr>>

(* __main__: argument parsing, lines 163-168 *)

ParseCommandLine ==
    /\ pc = "parse"
    /\ LET a == ParseArgs(argv)
       IN  IF a.status = "help"
              THEN /\ stdout' = Append(stdout, HelpText)
                   /\ exitCode' = 0
                   /\ pc' = "exited"
                   /\ UNCHANGED <<args, stderr>>
           ELSE IF a.status = "error"
              THEN /\ stderr' = Append(stderr, UsageError)
                   /\ exitCode' = 2
                   /\ pc' = "exited"
                   /\ UNCHANGED <<args, stdout>>
           ELSE /\ input_path' = a.input
                /\ output_path' = a.output
                /\ verbose' = a.verbose
                /\ pc' = "exists"
                /\ UNCHANGED <<streams, exitCode>>
    /\ UNCHANGED <<world, fs, locals, result, calls>>

----------------------------------------------------------------------------
(* repair_stl, lines 31-159 *)

\* as if the narration were printed without file=sys.stderr
Narrate_ToStdout(lines) ==
    /\ stdout' = IF verbose THEN stdout \o lines ELSE stdout
    /\ stderr' = stderr

\* print(..., file=sys.stderr) under `if verbose:`
Narrate(lines) ==
    /\ stderr' = IF verbose THEN stderr \o lines ELSE stderr
    /\ stdout' = stdout

\* as if the handler returned the message alone
Raise_NoType(c) ==
    /\ result' = [success |-> FALSE, error |-> Str(c)]
    /\ pc' = "print"
    /\ exitCode' = exitCode

\* `except Exception as e:` and its handler, lines 154-159; an exception of
\* a class the clause does not name leaves repair_stl and ends the process
\* with a traceback
Raise(c) ==
    IF c.exc \in ExceptionClasses
        THEN /\ result' = [success |-> FALSE, error |-> Str(c), errorType |-> c.exc]
             /\ pc' = "print"
             /\ exitCode' = exitCode
        ELSE /\ result' = result
             /\ pc' = "crashed"
             /\ exitCode' = 1

\* as if the size difference were taken the other way round
SuccessResult_Reversed(out, osize, rsize, istats, fstats, steps) ==
    [success |-> TRUE,
     outputPath |-> out,
     originalSize |-> osize,
     repairedSize |-> rsize,
     sizeDifference |-> osize - rsize,
     initialStats |-> istats,
     finalStats |-> fstats,
     repairSteps |-> steps,
     verticesChanged |-> fstats.vertices - istats.vertices,
     facesChanged |-> fstats.faces - istats.faces]

\* the dictionary returned at lines 141-152
SuccessResult(out, osize, rsize, istats, fstats, steps) ==
    [success |-> TRUE,
     outputPath |-> out,
     originalSize |-> osize,
     repairedSize |-> rsize,
     sizeDifference |-> rsize - osize,
     initialStats |-> istats,
     finalStats |-> fstats,
     repairSteps |-> steps,
     verticesChanged |-> fstats.vertices - istats.vertices,
     facesChanged |-> fstats.faces - istats.faces]

\* as if the existence check were missing
CheckExists_Unchecked ==
    /\ pc = "exists"
    /\ pc' = "getsize_in"
    /\ UNCHANGED <<world, fs, args, locals, streams, exitCode, result, calls>>

\* lines 45-49
CheckExists ==
    /\ pc = "exists"
    /\ LET c == Call("exists", input_path, TRUE,
                     IF fs[input_path].present THEN 1 ELSE 0, "")
       IN  /\ Admissible(c, Len(calls) + 1)
           /\ calls' = Append(calls, c)
           /\ IF c.ret = 0
                 THEN /\ result' = [success |-> FALSE,
                                    error |-> <<"Input file not found: ", input_path>>]
                      /\ pc' = "print"
                 ELSE /\ pc' = "getsize_in"
                      /\ UNCHANGED result
    /\ UNCHANGED <<world, fs, args, locals, streams, exitCode>>

\* line 52; os.path.getsize returns the size of a file that is there
GetOriginalSize ==
    /\ pc = "getsize_in"
    /\ \E c \in {Call("getsize", input_path, TRUE, fs[input_path].size, "") :
                        x \in {y \in {input_path} : fs[y].present}}
                   \cup Failures("getsize", input_path) :
        /\ Admissible(c, Len(calls) + 1)
        /\ calls' = Append(calls, c)
        /\ IF c.ok
              THEN /\ original_size' = c.ret
                   /\ pc' = "meshset"
                   /\ UNCHANGED <<result, exitCode>>
              ELSE /\ Raise(c)
                   /\ UNCHANGED original_size
    /\ UNCHANGED <<world, fs, args, ms, initial_stats, final_stats, repair_steps,
                   streams>>

\* lines 54-58
CreateMeshSet ==
    /\ pc = "meshset"
    /\ Narrate(<<"Loading mesh from">>)
    /\ \E c \in {Call("MeshSet", "", TRUE, 0, "")} \cup Failures("MeshSet", "") :
        /\ Admissible(c, Len(calls) + 1)
        /\ calls' = Append(calls, c)
        /\ IF c.ok
              THEN /\ ms' = EmptyMeshSet
                   /\ pc' = "load"
                   /\ UNCHANGED <<result, exitCode>>
              ELSE /\ Raise(c)
                   /\ UNCHANGED ms
    /\ UNCHANGED <<world, fs, args, original_size, initial_stats, final_stats,
                   repair_steps>>

\* line 61; the engine loads the mesh of a file that is there
LoadNewMesh ==
    /\ pc = "load"
    /\ \E c \in {Call("load_new_mesh", input_path, TRUE, 0, "") :
                        x \in {y \in {input_path} : fs[y].present}}
                   \cup Failures("load_new_mesh", input_path) :
        /\ Admissible(c, Len(calls) + 1)
        /\ calls' = Append(calls, c)
        /\ IF c.ok
              THEN /\ ms' = [state |-> "loaded", v |-> fs[input_path].v,
                             f |-> fs[input_path].f]
                   /\ pc' = "initial_stats"
                   /\ UNCHANGED <<result, exitCode>>
              ELSE /\ Raise(c)
                   /\ UNCHANGED ms
    /\ UNCHANGED <<world, fs, args, original_size, initial_stats, final_stats,
                   repair_steps, streams>>

\* lines 64-70
ReadInitialStats ==
    /\ pc = "initial_stats"
    /\ \E cs \in StatsReads :
        LET last == cs[Len(cs)]
        IN  /\ calls' = calls \o cs
            /\ IF last.ok
                  THEN /\ initial_stats' = [vertices |-> cs[1].ret, faces |-> cs[2].ret]
                       /\ Narrate(<<"Initial mesh">>)
                       /\ pc' = "step1"
                       /\ UNCHANGED <<result, exitCode>>
                  ELSE /\ Raise(last)
                       /\ UNCHANGED <<initial_stats, streams>>
    /\ UNCHANGED <<world, fs, args, original_size, ms, final_stats, repair_steps>>

\* as if a failing filter were skipped and the run went on
ApplyFilter_ContinueOnFailure(here, next, filter, name, narration) ==
    /\ pc = here
    /\ stderr' = (IF verbose THEN Append(stderr, narration) ELSE stderr)
    /\ \E c \in {Call(filter, "", TRUE, 0, "")} \cup Failures(filter, "") :
        /\ Admissible(c, Len(calls) + 1)
        /\ calls' = Append(calls, c)
        /\ IF c.ok
              THEN /\ \E v \in Counts, f \in Counts :
                        ms' = [ms EXCEPT !.v = v, !.f = f]
                   /\ repair_steps' = Append(repair_steps, name)
              ELSE UNCHANGED <<ms, repair_steps>>
    /\ pc' = next
    /\ UNCHANGED <<world, fs, args, original_size, initial_stats, final_stats,
                   result, exitCode, stdout>>

\* one of the eight blocks of lines 75-121: narrate, call the filter on the
\* mesh set, append the step's name
ApplyFilter(here, next, filter, name, narration) ==
    /\ pc = here
    /\ Narrate(<<narration>>)
    /\ \E c \in {Call(filter, "", TRUE, 0, "")} \cup Failures(filter, "") :
        /\ Admissible(c, Len(calls) + 1)
        /\ calls' = Append(calls, c)
        /\ IF c.ok
              THEN /\ \E v \in Counts, f \in Counts :
                        ms' = [ms EXCEPT !.v = v, !.f = f]
                   /\ repair_steps' = Append(repair_steps, name)
                   /\ pc' = next
                   /\ UNCHANGED <<result, exitCode>>
              ELSE /\ Raise(c)
                   /\ UNCHANGED <<ms, repair_steps>>
    /\ UNCHANGED <<world, fs, args, original_size, initial_stats, final_stats>>

\* lines 75-79
Step1 ==
    ApplyFilter("step1", "step2", "meshing_remove_duplicate_faces",
                "remove_duplicate_faces", "Step 1")
\* lines 81-85
Step2 ==
    ApplyFilter("step2", "step3", "meshing_remove_duplicate_vertices",
                "remove_duplicate_vertices", "Step 2")
\* lines 87-91
Step3 ==
    ApplyFilter("step3", "step4", "meshing_remove_unreferenced_vertices",
                "remove_unreferenced_vertices", "Step 3")
\* lines 93-97
Step4 ==
    ApplyFilter("step4", "step5", "meshing_repair_non_manifold_edges",
                "repair_non_manifold_edges", "Step 4")
\* lines 99-103
Step5 ==
    ApplyFilter("step5", "step6", "meshing_repair_non_manifold_vertices",
                "repair_non_manifold_vertices", "Step 5")
\* as if the sixth block called the re-orientation filter
Step6_Misordered ==
    ApplyFilter("step6", "step7", "meshing_re_orient_faces_coherently",
                "close_holes", "Step 6")

\* lines 105-109
Step6 ==
    ApplyFilter("step6", "step7", "meshing_close_holes", "close_holes", "Step 6")
\* lines 111-115
Step7 ==
    ApplyFilter("step7", "step8", "meshing_re_orient_faces_coherently",
                "reorient_faces", "Step 7")
\* lines 117-121
Step8 ==
    ApplyFilter("step8", "final_stats", "meshing_snap_mismatched_borders",
                "snap_borders", "Step 8")

\* lines 123-130
ReadFinalStats ==
    /\ pc = "final_stats"
    /\ \E cs \in StatsReads :
        LET last == cs[Len(cs)]
        IN  /\ calls' = calls \o cs
            /\ IF last.ok
                  THEN /\ final_stats' = [vertices |-> cs[1].ret, faces |-> cs[2].ret]
                       /\ Narrate(<<"Final mesh">>)
                       /\ pc' = "save"
                       /\ UNCHANGED <<result, exitCode>>
                  ELSE /\ Raise(last)
                       /\ UNCHANGED <<final_stats, streams>>
    /\ UNCHANGED <<world, fs, args, original_size, ms, initial_stats, repair_steps>>

\* as if the mesh were saved over the input file
SaveCurrentMesh_ToInput ==
    /\ pc = "save"
    /\ \E s \in Sizes :
        /\ calls' = Append(calls, Call("save_current_mesh", input_path, TRUE, s, ""))
        /\ fs' = [fs EXCEPT ![input_path] = MeshFile(s, ms.v, ms.f)]
    /\ pc' = "getsize_out"
    /\ UNCHANGED <<world, args, locals, result, exitCode, streams>>

\* lines 132-136: a save that returns leaves a file with the current mesh at
\* the path; a save that raises leaves the path as it was or holding a
\* truncated file (ret = 1)
SaveCurrentMesh ==
    /\ pc = "save"
    /\ Narrate(<<"Saving repaired mesh to">>)
    /\ \E c \in {Call("save_current_mesh", output_path, TRUE, s, "") : s \in Sizes}
                   \cup {[x EXCEPT !.ret = w] :
                            x \in Failures("save_current_mesh", output_path),
                            w \in {0, 1}} :
        /\ Admissible(c, Len(calls) + 1)
        /\ calls' = Append(calls, c)
        /\ IF c.ok
              THEN /\ fs' = [fs EXCEPT ![output_path] = MeshFile(c.ret, ms.v, ms.f)]
                   /\ pc' = "getsize_out"
                   /\ UNCHANGED <<result, exitCode>>
              ELSE /\ fs' = IF c.ret = 1
                               THEN [fs EXCEPT ![output_path] = Truncated]
                               ELSE fs
                   /\ Raise(c)
    /\ UNCHANGED <<world, args, locals>>

\* lines 138-152
GetRepairedSize ==
    /\ pc = "getsize_out"
    /\ \E c \in {Call("getsize", output_path, TRUE, fs[output_path].size, "") :
                        x \in {y \in {output_path} : fs[y].present}}
                   \cup Failures("getsize", output_path) :
        /\ Admissible(c, Len(calls) + 1)
        /\ calls' = Append(calls, c)
        /\ IF c.ok
              THEN /\ result' = SuccessResult(output_path, original_size, c.ret,
                                              initial_stats, final_stats, repair_steps)
                   /\ pc' = "print"
                   /\ UNCHANGED exitCode
              ELSE Raise(c)
    /\ UNCHANGED <<world, fs, args, locals, streams>>

----------------------------------------------------------------------------
(* __main__, lines 170-176 *)

\* line 173
PrintResult ==
    /\ pc = "print"
    /\ stdout' = Append(stdout, JsonDumps(result, Indent))
    /\ pc' = "exit"
    /\ UNCHANGED <<world, fs, args, locals, result, stderr, exitCode, calls>>

\* line 176
Exit ==
    /\ pc = "exit"
    /\ exitCode' = IF result.success THEN 0 ELSE 1
    /\ pc' = "exited"
    /\ UNCHANGED <<world, fs, args, locals, result, streams, calls>>

----------------------------------------------------------------------------
(* The repeated invocation *)

\* After the first invocation has ended the program is invoked again with the
\* verbose flag switched, on the file system the first invocation started
\* from.
Rerun ==
    /\ run = 1
    /\ pc \in {"exited", "crashed"}
    /\ ref' = [calls |-> calls, result |-> result, stdout |-> stdout,
               stderr |-> stderr, exitCode |-> exitCode]
    /\ run' = 2
    /\ argv' = ToggleVerbose(argv)
    /\ fs' = fs0
    /\ pc' = "import"
    /\ input_path' = ""
    /\ output_path' = ""
    /\ verbose' = FALSE
    /\ original_size' = Unset
    /\ ms' = NoMeshSet
    /\ initial_stats' = NoStats
    /\ final_stats' = NoStats
    /\ repair_steps' = <<>>
    /\ result' = NoResult
    /\ stdout' = <<>>
    /\ stderr' = <<>>
    /\ exitCode' = Running
    /\ calls' = <<>>
    /\ UNCHANGED fs0

Next ==
    \/ ImportPymeshlab
    \/ ParseCommandLine
    \/ CheckExists
    \/ GetOriginalSize
    \/ CreateMeshSet
    \/ LoadNewMesh
    \/ ReadInitialStats
    \/ Step1
    \/ Step2
    \/ Step3
    \/ Step4
    \/ Step5
    \/ Step6
    \/ Step7
    \/ Step8
    \/ ReadFinalStats
    \/ SaveCurrentMesh
    \/ GetRepairedSize
    \/ PrintResult
    \/ Exit
    \/ Rerun

Spec == Init /\ [][Next]_vars

----------------------------------------------------------------------------
(* What the properties below speak about *)

\* the names of the eight repair steps, in their fixed order
StepNames ==
    << "remove_duplicate_faces", "remove_duplicate_vertices",
       "remove_unreferenced_vertices", "repair_non_manifold_edges",
       "repair_non_manifold_vertices", "close_holes", "reorient_faces",
       "snap_borders" >>

\* the calls of a run of repair_stl in which nothing fails
SuccessOps ==
    <<"import", "exists", "getsize", "MeshSet", "load_new_mesh",
      "vertex_number", "face_number">> \o Filters \o
    <<"vertex_number", "face_number", "save_current_mesh", "getsize">>

OpsOf(cs) == [i \in 1..Len(cs) |-> cs[i].op]
IsEngineCall(c) == c.op \in EngineOps
IsFilterCall(c) == c.op \in FilterOps
IsSizeRead(c) == c.op = "getsize"
IsSave(c) == c.op = "save_current_mesh"
IsPrefix(a, b) == Len(a) <= Len(b) /\ a = SubSeq(b, 1, Len(a))

\* the call is an operation of repair_stl that failed
Failed(c) == c.op # "import" /\ (~c.ok \/ (c.op = "exists" /\ c.ret = 0))

\* repair_stl has been called, and has returned
Called == input_path # ""
Returned == "success" \in DOMAIN result
IsSuccess == Returned /\ result.success
IsFailure == Returned /\ ~result.success
LastCall == calls[Len(calls)]

\* the error categories of the specification, by failing operation
ErrorKind(c) ==
    IF c.op = "exists" THEN "InputNotFound"
    ELSE IF c.op = "load_new_mesh" THEN "LoadFailure"
    ELSE IF c.op \in FilterOps THEN "RepairStepFailure"
    ELSE IF c.op = "save_current_mesh" THEN "SaveFailure"
    ELSE "Unclassified"

----------------------------------------------------------------------------
(* C1: when the mesh loads and no engine call fails, the eight filters are    *)
(* called exactly once each, in the fixed order, and the repairSteps of a   *)
(* Success result is the list of their eight names in that order.  At every *)
(* moment the filter calls made so far are a prefix of that order.          *)
C1_FixedStepOrder ==
    LET filterCalls == SelectSeq(calls, IsFilterCall)
        engineCalls == SelectSeq(calls, IsEngineCall)
    IN  /\ IsPrefix(OpsOf(filterCalls), Filters)
        /\ (/\ Returned
            /\ \E i \in 1..Len(calls) : calls[i].op = "load_new_mesh" /\ calls[i].ok
            /\ \A i \in 1..Len(engineCalls) : engineCalls[i].ok)
           => OpsOf(filterCalls) = Filters
        /\ IsSuccess => result.repairSteps = StepNames

C1_Witness ==
    /\ pc = "exited"
    /\ IsSuccess
    /\ OpsOf(SelectSeq(calls, IsFilterCall)) = Filters
    /\ result.finalStats # result.initialStats

(* C2: once an operation of repair fails, no later operation is invoked (no  *)
(* later step, no retry, no save) and the run returns a Failure result.     *)
C2_AbortOnFailure ==
    /\ \A i \in 1..(Len(calls) - 1) : ~Failed(calls[i])
    /\ (Len(calls) > 0 /\ Failed(LastCall))
       => (pc \in {"print", "exit", "exited"} /\ IsFailure)
    /\ IsSuccess => \A i \in 1..Len(calls) : ~Failed(calls[i])

C2_Witness ==
    /\ pc = "exited"
    /\ IsFailure
    /\ LastCall.op = "meshing_repair_non_manifold_edges"
    /\ ~LastCall.ok
    /\ repair_steps = SubSeq(StepNames, 1, 3)

(* C3: when the input path does not exist when repair is called, repair     *)
(* returns a Failure result, makes no engine call, reads no file size and   *)
(* leaves the file system, the output path included, as it was.             *)
C3_MissingInput ==
    (Called /\ ~fs0[input_path].present)
    => /\ SelectSeq(calls, IsEngineCall) = <<>>
       /\ SelectSeq(calls, IsSizeRead) = <<>>
       /\ ms = NoMeshSet
       /\ fs = fs0
       /\ pc \in {"exists", "print", "exit", "exited"}
       /\ pc # "exists" => IsFailure

C3_Witness ==
    /\ pc = "exited"
    /\ Called
    /\ ~fs0[input_path].present
    /\ fs0[output_path].present
    /\ IsFailure

C5_AllCaught ==
    /\ pc # "crashed"
    /\ \A i \in 1..Len(calls) :
         (calls[i].op # "import" /\ ~calls[i].ok)
         => /\ pc \in {"print", "exit", "exited"}
            /\ IsFailure
            /\ result.error = Str(calls[i])

C5_Witness ==
    /\ pc = "exited"
    /\ IsFailure
    /\ ~LastCall.ok
    /\ LastCall.exc = "MemoryError"
    /\ LastCall.op = "save_current_mesh"

(* C6: in a Success result sizeDifference = repairedSize - originalSize,     *)
(* verticesChanged and facesChanged are the final counts minus the initial  *)
(* counts; originalSize is the input's size read before the load, the      *)
(* initial counts are read after the load and before the first filter, the  *)
(* final counts after the eighth filter and before the save, repairedSize   *)
(* is the output's size read after the save.                                *)
C6_StatsArithmetic ==
    IsSuccess
    => /\ OpsOf(calls) = SuccessOps
       /\ calls[3].arg = input_path
       /\ result.originalSize = calls[3].ret
       /\ result.originalSize = fs0[input_path].size
       /\ result.initialStats = [vertices |-> calls[6].ret, faces |-> calls[7].ret]
       /\ result.initialStats = [vertices |-> fs0[input_path].v,
                                 faces |-> fs0[input_path].f]
       /\ result.finalStats = [vertices |-> calls[16].ret, faces |-> calls[17].ret]
       /\ result.finalStats = [vertices |-> fs[output_path].v,
                               faces |-> fs[output_path].f]
       /\ calls[19].arg = output_path
       /\ result.repairedSize = calls[19].ret
       /\ result.repairedSize = calls[18].ret
       /\ result.sizeDifference = result.repairedSize - result.originalSize
       /\ result.verticesChanged =
            result.finalStats.vertices - result.initialStats.vertices
       /\ result.facesChanged = result.finalStats.faces - result.initialStats.faces

C6_Witness ==
    /\ pc = "exited"
    /\ IsSuccess
    /\ result.sizeDifference < 0
    /\ result.verticesChanged > 0
    /\ result.facesChanged < 0

(* C7: every invocation exits with 0 when the result is Success and with 1  *)
(* when it is Failure, and with no other code.                              *)
C7_ExitCodes ==
    pc = "exited"
    => /\ exitCode \in {0, 1}
       /\ exitCode = 0 => IsSuccess
       /\ exitCode = 1 => (IsFailure \/ ~LastCall.ok)

(* C8: every invocation writes exactly one JSON document, that of its       *)
(* result, to stdout before it exits.                                       *)
C8_OneJsonDocument ==
    pc = "exited"
    => /\ Len(stdout) = 1
       /\ IsJson(stdout[1])
       /\ stdout[1].json = (IF Returned THEN result ELSE ImportFailure)

(* C9: two runs that differ only in the verbose flag return the same        *)
(* result, write the same to stdout, make the same calls and exit with the  *)
(* same code; repair itself writes nothing to stdout, and without verbose   *)
(* it writes nothing to stderr.                                             *)
C9_VerboseInvariance ==
    /\ (run = 2 /\ pc = "exited")
       => /\ result = ref.result
          /\ stdout = ref.stdout
          /\ calls = ref.calls
          /\ exitCode = ref.exitCode
    /\ (Called /\ pc \notin {"exit", "exited"}) => stdout = <<>>
    /\ (Called /\ ~verbose) => stderr = <<>>

C9_Witness ==
    /\ run = 2
    /\ pc = "exited"
    /\ IsSuccess
    /\ verbose
    /\ input_path # output_path
    /\ Len(stderr) = 12
    /\ ref.stderr = <<>>
    /\ result.facesChanged # 0

(* C10, as stated: for every pair of paths, equal paths included, the input *)
(* file is only read and keeps its content, the output file is written at  *)
(* most once, by the save, after all eight steps, and no other file is     *)
(* created or modified.                                                     *)
C10_Original ==
    Called
    => /\ fs[input_path] = fs0[input_path]
       /\ \A p \in Paths \ {output_path} : fs[p] = fs0[p]
       /\ Len(SelectSeq(calls, IsSave)) <= 1
       /\ fs[output_path] # fs0[output_path] => repair_steps = StepNames

(* C10, amended: no file other than the one at the output path is created   *)
(* or modified, so the input file keeps its content when the two paths      *)
(* differ; the output path is written by at most one save, made after all   *)
(* eight filters have returned; when the two paths name the same file, a    *)
(* save that returns replaces the input file by the repaired mesh.          *)
C10_FrameOfRepair ==
    LET saves == SelectSeq(calls, IsSave)
    IN  /\ ~Called => fs = fs0
        /\ Called
           => /\ \A p \in Paths \ {output_path} : fs[p] = fs0[p]
              /\ Len(saves) <= 1
              /\ \A i \in 1..Len(saves) : saves[i].arg = output_path
              /\ Len(saves) = 1
                 => /\ repair_steps = StepNames
                    /\ OpsOf(SelectSeq(calls, IsFilterCall)) = Filters
                    /\ \A i \in 1..Len(calls) :
                         calls[i].op \in FilterOps => calls[i].ok
              /\ fs[output_path] # fs0[output_path] => Len(saves) = 1
              /\ (Len(saves) = 1 /\ saves[1].ok)
                 => fs[output_path] = MeshFile(saves[1].ret, ms.v, ms.f)

C10_Witness ==
    /\ pc = "exited"
    /\ IsSuccess
    /\ input_path # output_path
    /\ fs0[output_path].present
    /\ fs[output_path] # fs0[output_path]
    /\ fs[input_path] = fs0[input_path]

====
